---- MODULE Spec2Model ----
(***************************************************************************)
(* Strand: the genetic representation of a neural network (NEAT genome).   *)
(* Connection genes are objects on a heap and strands hold references to   *)
(* them, so that two strands holding the same gene object is expressible.  *)
(* Weights are counted in ticks: One ticks make the weight 1.0.            *)
(***************************************************************************)
EXTENDS Integers, Sequences, FiniteSets, TLC

VARIABLES heap, innovations, strands, origin, last, ops

vars == <<heap, innovations, strands, origin, last, ops>>

\* ------------------------------------------------------------------ bounds
MaxOps == 4
MaxConstructed == 2
MaxMutations == 2
MaxStrands == 3
MaxInputs == 2
MaxOutputs == 2
MaxReal == 1
MaxSeed == 3
MaxStep == 3
MaxAmplitude == 1
MaxAttempts == 2
MaxCoefficient == 1

\* The weight 1.0 in ticks; random.real(0, 1) stays below it.
One == MaxReal + 1

\* ------------------------------------------------------- randomness source
\* A randomness source answers its k-th call of a method from the stream
\* seed, seed + step, seed + 2 * step, ...
Randoms == [seed : 0..MaxSeed, step : 0..MaxStep]

Stream(random, k) == random.seed + random.step * (k - 1)

\* The k-th random.real(0, 1): the upper end is excluded.
Real(random, k) == Stream(random, k) % One

\* The k-th random.real(0, 1, true): the upper end is included.
RealInclusive(random, k) == Stream(random, k) % (One + 1)

\* The chances handed to random.bool.
Chances == {"0", "0.5", "1"}

\* The k-th random.bool(p): never for p = 0, always for p = 1.
Bool(random, p, k) ==
  IF p = "0" THEN FALSE ELSE IF p = "1" THEN TRUE ELSE Stream(random, k) % 2 = 1

\* The k-th random.pick(array), for a non-empty array.
Pick(random, array, k) == array[(Stream(random, k) % Len(array)) + 1]

\* ------------------------------------------------------------ sequences
Range(s) == {s[i] : i \in 1..Len(s)}

Abs(x) == IF x < 0 THEN -x ELSE x

\* ------------------------------------------------------------------ genes
\* new NodeGene(id, type)
NodeGene(id, type) == [id |-> id, type |-> type]

\* The innovation number the registry gives the connection in -> out: the
\* number it already has, or the next unused number.
InnovationNumber(reg, in, out) ==
  IF \E i \in 1..Len(reg) : reg[i] = <<in, out>>
    THEN CHOOSE i \in 1..Len(reg) : reg[i] = <<in, out>>
    ELSE Len(reg) + 1

\* The registry after the connection in -> out was given its number.
Registered(reg, in, out) ==
  IF \E i \in 1..Len(reg) : reg[i] = <<in, out>> THEN reg ELSE Append(reg, <<in, out>>)

\* new ConnectionGene(in, out, weight, enabled), as a value
ConnectionGene(reg, in, out, weight, enabled) ==
  [in |-> in, out |-> out, weight |-> weight, enabled |-> enabled,
   innovationNumber |-> InnovationNumber(reg, in, out)]

\* A store is the heap of gene objects together with the innovation registry.
Store(h, reg) == [heap |-> h, innovations |-> reg]

\* The store after `new ConnectionGene(in, out, weight, enabled)`; the new
\* object's reference is Len(store.heap).
New(store, in, out, weight, enabled) ==
  Store(Append(store.heap, ConnectionGene(store.innovations, in, out, weight, enabled)),
        Registered(store.innovations, in, out))

\* connectionGene.clone(): the heap with a new object of the same field values.
CloneGene(h, ref) == Append(h, h[ref])

\* ---------------------------------------------------------------- Strand
Strand(nodes, conns, next) ==
  [nodeGenes |-> nodes, connectionGenes |-> conns, _nextNodeGeneID |-> next]

\* new Strand(): nothing but the counter at 1.
EmptyStrand == Strand(<<>>, <<>>, 1)

NoDistance == [nan |-> FALSE, num |-> 0, den |-> 1]

\* The call that was made last: the operation, the strand it was called on,
\* its other strand, what it returned, its arguments and what it drew.
Last(op, self, other, ret, args, rolls, dist) ==
  [op |-> op, self |-> self, other |-> other, ret |-> ret, args |-> args,
   rolls |-> rolls, dist |-> dist]

\* Where a strand came from: constructed, cloned or crossed over, and of whom.
Origin(kind, parents) == [kind |-> kind, parents |-> parents]

Init ==
  /\ heap = <<>>
  /\ innovations = <<>>
  /\ strands = <<>>
  /\ origin = <<>>
  /\ last = Last("none", 0, 0, 0, <<>>, <<>>, NoDistance)
  /\ ops = 0

\* ----------------------------------------------------------- constructor
\* The input node genes 1 .. inputCount, then the output node genes.
ConstructedNodeGenes(inputCount, outputCount) ==
  [i \in 1..(inputCount + outputCount) |->
     NodeGene(i, IF i <= inputCount THEN "input" ELSE "output")]

\* ConstructedStore with the input of the k-th gene counted by the inputs.
RECURSIVE ConstructedStore_byInputs(_, _, _, _, _, _)
ConstructedStore_byInputs(store, inputCount, outputCount, enabled, random, k) ==
  IF k = 0 THEN store
  ELSE LET before == ConstructedStore_byInputs(store, inputCount, outputCount, enabled,
                                               random, k - 1)
           in == ((k - 1) \div inputCount) + 1
           out == inputCount + ((k - 1) % outputCount) + 1
       IN New(before, in, out, RealInclusive(random, k), enabled)

\* The store after the constructor's nested forEach created its k first
\* connection genes: input by input and, for each input, output by output.
RECURSIVE ConstructedStore(_, _, _, _, _, _)
ConstructedStore(store, inputCount, outputCount, enabled, random, k) ==
  IF k = 0 THEN store
  ELSE LET before == ConstructedStore(store, inputCount, outputCount, enabled, random, k - 1)
           in == ((k - 1) \div outputCount) + 1
           out == inputCount + ((k - 1) % outputCount) + 1
       IN New(before, in, out, RealInclusive(random, k), enabled)

\* new Strand(inputCount, outputCount, enabled, random)
Construct(inputCount, outputCount, enabled, random) ==
  LET n == inputCount * outputCount
      store == ConstructedStore(Store(heap, innovations), inputCount, outputCount,
                                enabled, random, n)
      made == Strand(ConstructedNodeGenes(inputCount, outputCount),
                     [k \in 1..n |-> Len(heap) + k],
                     inputCount + outputCount + 1)
  IN /\ heap' = store.heap
     /\ innovations' = store.innovations
     /\ strands' = Append(strands, made)
     /\ origin' = Append(origin, Origin("constructed", {}))
     /\ last' = Last("construct", Len(strands) + 1, 0, Len(strands) + 1,
                     <<inputCount, outputCount, enabled>>,
                     [k \in 1..n |-> RealInclusive(random, k)], NoDistance)
     /\ ops' = ops + 1

\* new Strand(): arguments.length === 0
ConstructEmpty ==
  /\ strands' = Append(strands, EmptyStrand)
  /\ origin' = Append(origin, Origin("constructed", {}))
  /\ last' = Last("constructEmpty", Len(strands) + 1, 0, Len(strands) + 1,
                  <<>>, <<>>, NoDistance)
  /\ ops' = ops + 1
  /\ UNCHANGED <<heap, innovations>>

\* -------------------------------------------------------- gene alignment
innovationNumber(ref) == heap[ref].innovationNumber

\* _.intersectionBy(array, values, (gene) => gene.innovationNumber): the genes
\* of array whose number occurs in values, the first of each number only.
IntersectionBy(array, values) ==
  LET keep(i) == /\ \E j \in 1..Len(values) :
                      innovationNumber(values[j]) = innovationNumber(array[i])
                 /\ \A j \in 1..(i - 1) :
                      innovationNumber(array[j]) # innovationNumber(array[i])
      F[i \in 0..Len(array)] ==
        IF i = 0 THEN <<>>
        ELSE IF keep(i) THEN Append(F[i - 1], array[i]) ELSE F[i - 1]
  IN F[Len(array)]

\* _.without(array, ...values): the objects of array that are none of values.
Without(array, values) == SelectSeq(array, LAMBDA ref : ref \notin Range(values))

\* this._matching(otherStrand)
_matching(this, otherStrand) ==
  IntersectionBy(this.connectionGenes, otherStrand.connectionGenes)

\* this._disjoint(otherStrand)
_disjoint(this, otherStrand) ==
  LET matching == _matching(this, otherStrand)
      candidates == Without(this.connectionGenes, matching)
      others == Without(otherStrand.connectionGenes, matching)
  IN SelectSeq(candidates, LAMBDA candidate :
       \E j \in 1..Len(others) :
         innovationNumber(others[j]) > innovationNumber(candidate))

\* _excess with the comparison of the innovation numbers turned around.
_excess_below(this, otherStrand) ==
  LET matching == _matching(this, otherStrand)
      candidates == Without(this.connectionGenes, matching)
      others == Without(otherStrand.connectionGenes, matching)
  IN SelectSeq(candidates, LAMBDA candidate :
       \A j \in 1..Len(others) :
         innovationNumber(others[j]) > innovationNumber(candidate))

\* this._excess(otherStrand)
_excess(this, otherStrand) ==
  LET matching == _matching(this, otherStrand)
      candidates == Without(this.connectionGenes, matching)
      others == Without(otherStrand.connectionGenes, matching)
  IN SelectSeq(candidates, LAMBDA candidate :
       \A j \in 1..Len(others) :
         innovationNumber(others[j]) < innovationNumber(candidate))

\* ---------------------------------------------------------- mutateWeights
\* What mutateWeights drew for one gene: the perturb roll and the replace
\* roll, each with the number of the call of random.bool that made it, and
\* the reals and the sign drawn; a value that was not drawn is 0 or TRUE.
Roll(perturb, perturbCall, real, positive, replace, replaceCall, fresh) ==
  [perturb |-> perturb, perturbCall |-> perturbCall, real |-> real,
   positive |-> positive, replace |-> replace, replaceCall |-> replaceCall,
   fresh |-> fresh]

\* MutateGene with the replacement made before the perturbation.
MutateGene_perturbLast(acc, ref, perturbChance, perturbAmplitude, newValueChance, random) ==
  LET perturb == Bool(random, perturbChance, acc.bools + 1)
      real == IF perturb THEN Real(random, acc.reals + 1) ELSE 0
      positive == IF perturb THEN Bool(random, "0.5", acc.bools + 2) ELSE TRUE
      delta == perturbAmplitude * real * (IF positive THEN 1 ELSE -1)
      bools == acc.bools + (IF perturb THEN 2 ELSE 1)
      reals == acc.reals + (IF perturb THEN 1 ELSE 0)
      replace == Bool(random, newValueChance, bools + 1)
      fresh == IF replace THEN Real(random, reals + 1) ELSE 0
      replaced == IF replace THEN fresh ELSE acc.heap[ref].weight
      weight == IF perturb THEN replaced + delta ELSE replaced
  IN [heap |-> [acc.heap EXCEPT ![ref].weight = weight],
      rolls |-> Append(acc.rolls, Roll(perturb, acc.bools + 1, real, positive,
                                       replace, bools + 1, fresh)),
      bools |-> bools + 1,
      reals |-> reals + (IF replace THEN 1 ELSE 0)]

\* One turn of mutateWeights' forEach, on the gene object ref. acc holds the
\* heap so far, the rolls so far and the calls of random.bool and random.real
\* made so far.
MutateGene(acc, ref, perturbChance, perturbAmplitude, newValueChance, random) ==
  LET perturb == Bool(random, perturbChance, acc.bools + 1)
      real == IF perturb THEN Real(random, acc.reals + 1) ELSE 0
      positive == IF perturb THEN Bool(random, "0.5", acc.bools + 2) ELSE TRUE
      delta == perturbAmplitude * real * (IF positive THEN 1 ELSE -1)
      bools == acc.bools + (IF perturb THEN 2 ELSE 1)
      reals == acc.reals + (IF perturb THEN 1 ELSE 0)
      replace == Bool(random, newValueChance, bools + 1)
      fresh == IF replace THEN Real(random, reals + 1) ELSE 0
      perturbed == IF perturb THEN acc.heap[ref].weight + delta ELSE acc.heap[ref].weight
      weight == IF replace THEN fresh ELSE perturbed
  IN [heap |-> [acc.heap EXCEPT ![ref].weight = weight],
      rolls |-> Append(acc.rolls, Roll(perturb, acc.bools + 1, real, positive,
                                       replace, bools + 1, fresh)),
      bools |-> bools + 1,
      reals |-> reals + (IF replace THEN 1 ELSE 0)]

\* mutateWeights' forEach over the k first connection genes.
RECURSIVE MutatedGenes(_, _, _, _, _, _)
MutatedGenes(genes, k, perturbChance, perturbAmplitude, newValueChance, random) ==
  IF k = 0 THEN [heap |-> heap, rolls |-> <<>>, bools |-> 0, reals |-> 0]
  ELSE MutateGene(MutatedGenes(genes, k - 1, perturbChance, perturbAmplitude,
                               newValueChance, random),
                  genes[k], perturbChance, perturbAmplitude, newValueChance, random)

\* strands[s].mutateWeights(perturbChance, perturbAmplitude, newValueChance, random)
mutateWeights(s, perturbChance, perturbAmplitude, newValueChance, random) ==
  LET genes == strands[s].connectionGenes
  IN \E done \in {MutatedGenes(genes, Len(genes), perturbChance, perturbAmplitude,
                               newValueChance, random)} :
       /\ heap' = done.heap
       /\ last' = Last("mutateWeights", s, 0, 0,
                       <<perturbChance, perturbAmplitude, newValueChance>>,
                       done.rolls, NoDistance)
       /\ ops' = ops + 1
       /\ UNCHANGED <<innovations, strands, origin>>

\* ------------------------------------------------------ addRandomNodeGene
\* _splitConnectionWithNode with the two new weights exchanged.
_splitConnectionWithNode_swapped(s, ref) ==
  LET this == strands[s]
      connectionGene == heap[ref]
      nodeGene == NodeGene(this._nextNodeGeneID, "hidden")
      incoming == New(Store(heap, innovations), connectionGene.in, nodeGene.id,
                      connectionGene.weight, TRUE)
      outgoing == New(incoming, nodeGene.id, connectionGene.out, One, TRUE)
  IN /\ heap' = [outgoing.heap EXCEPT ![ref].enabled = FALSE]
     /\ innovations' = outgoing.innovations
     /\ strands' = [strands EXCEPT ![s] =
          Strand(Append(this.nodeGenes, nodeGene),
                 this.connectionGenes \o <<Len(heap) + 1, Len(heap) + 2>>,
                 this._nextNodeGeneID + 1)]

\* this._splitConnectionWithNode(connectionGene), on the gene object ref
_splitConnectionWithNode(s, ref) ==
  LET this == strands[s]
      connectionGene == heap[ref]
      nodeGene == NodeGene(this._nextNodeGeneID, "hidden")
      incoming == New(Store(heap, innovations), connectionGene.in, nodeGene.id, One, TRUE)
      outgoing == New(incoming, nodeGene.id, connectionGene.out, connectionGene.weight, TRUE)
  IN /\ heap' = [outgoing.heap EXCEPT ![ref].enabled = FALSE]
     /\ innovations' = outgoing.innovations
     /\ strands' = [strands EXCEPT ![s] =
          Strand(Append(this.nodeGenes, nodeGene),
                 this.connectionGenes \o <<Len(heap) + 1, Len(heap) + 2>>,
                 this._nextNodeGeneID + 1)]

\* strands[s].addRandomNodeGene(random), for a strand with a connection gene
addRandomNodeGene(s, random) ==
  LET connectionToSplit == Pick(random, strands[s].connectionGenes, 1)
  IN /\ strands[s].connectionGenes # <<>>
     /\ _splitConnectionWithNode(s, connectionToSplit)
     /\ last' = Last("addRandomNodeGene", s, 0, connectionToSplit, <<>>, <<>>, NoDistance)
     /\ ops' = ops + 1
     /\ UNCHANGED origin

\* ------------------------------------------------ addRandomConnectionGene
\* this._areConnected(sourceNode, destNode), with the connection genes conns
_areConnected(h, conns, sourceNode, destNode) ==
  \E i \in 1..Len(conns) : h[conns[i]].in = sourceNode.id /\ h[conns[i]].out = destNode.id

\* _canConnect without the test for an existing connection.
_canConnect_unconnected(h, conns, sourceNode, destNode) ==
  /\ sourceNode.type # "output"
  /\ destNode.type # "input"

\* _canConnect that also refuses to connect a node to itself.
_canConnect_noLoop(h, conns, sourceNode, destNode) ==
  /\ sourceNode.type # "output"
  /\ destNode.type # "input"
  /\ sourceNode.id # destNode.id
  /\ ~_areConnected(h, conns, sourceNode, destNode)

\* this._canConnect(sourceNode, destNode)
_canConnect(h, conns, sourceNode, destNode) ==
  /\ sourceNode.type # "output"
  /\ destNode.type # "input"
  /\ ~_areConnected(h, conns, sourceNode, destNode)

\* The attempts addRandomConnectionGene makes: the nodes its k-th attempt picks.
Attempt(this, random, k) ==
  [source |-> Pick(random, this.nodeGenes, 2 * k - 1),
   dest |-> Pick(random, this.nodeGenes, 2 * k)]

\* The number of attempts the loop makes: up to the first one that can
\* connect, and iterations when none can.
Attempts(this, iterations, random) ==
  LET can(k) == _canConnect(heap, this.connectionGenes,
                            Attempt(this, random, k).source, Attempt(this, random, k).dest)
  IN IF \E k \in 1..iterations : can(k)
       THEN CHOOSE k \in 1..iterations : can(k) /\ \A j \in 1..(k - 1) : ~can(j)
       ELSE iterations

\* this._connect(sourceNode, destNode, random): the store afterwards; the gene
\* it returns is the new object, or null when the nodes cannot connect.
_connect(this, sourceNode, destNode, random) ==
  IF _canConnect(heap, this.connectionGenes, sourceNode, destNode)
    THEN New(Store(heap, innovations), sourceNode.id, destNode.id, Real(random, 1), TRUE)
    ELSE Store(heap, innovations)

\* strands[s].addRandomConnectionGene(iterations, random); it picks among the
\* node genes, so a strand without any is called with no iterations only.
addRandomConnectionGene(s, iterations, random) ==
  LET this == strands[s]
      n == Attempts(this, iterations, random)
      tried == [k \in 1..n |-> Attempt(this, random, k)]
      store == IF n = 0 THEN Store(heap, innovations)
               ELSE _connect(this, tried[n].source, tried[n].dest, random)
      connectionGene == IF Len(store.heap) > Len(heap) THEN Len(store.heap) ELSE 0
  IN /\ iterations = 0 \/ this.nodeGenes # <<>>
     /\ heap' = store.heap
     /\ innovations' = store.innovations
     /\ strands' = IF connectionGene # 0
                     THEN [strands EXCEPT ![s].connectionGenes = Append(@, connectionGene)]
                     ELSE strands
     /\ last' = Last("addRandomConnectionGene", s, 0, connectionGene,
                     <<iterations>>, tried, NoDistance)
     /\ ops' = ops + 1
     /\ UNCHANGED origin

\* ---------------------------------------------------------------- crossover
\* genes.sort((a, b) => a.innovationNumber - b.innovationNumber)
RECURSIVE SortByInnovation(_)
SortByInnovation(genes) ==
  IF genes = <<>> THEN <<>>
  ELSE LET sorted == SortByInnovation(Tail(genes))
           before == SelectSeq(sorted, LAMBDA ref :
                       innovationNumber(ref) < innovationNumber(Head(genes)))
           after == SelectSeq(sorted, LAMBDA ref :
                      innovationNumber(ref) >= innovationNumber(Head(genes)))
       IN before \o <<Head(genes)>> \o after

\* What crossover drew for one matching gene: whether the 50/50 roll chose
\* this parent's gene, whether the disabling roll was drawn (it is drawn only
\* when the gene is disabled in a parent) and whether it fired.
Inheritance(mine, drawn, disable) == [mine |-> mine, drawn |-> drawn, disable |-> disable]

\* InheritMatching without `gene.enabled = true`: the clone keeps its flag
\* unless the disabling roll fires.
InheritMatching_asCloned(acc, myGene, otherGene, disabledChance, random) ==
  LET mine == Bool(random, "0.5", acc.bools + 1)
      geneToInherit == IF mine THEN myGene ELSE otherGene
      either == ~heap[myGene].enabled \/ ~heap[otherGene].enabled
      disable == either /\ Bool(random, disabledChance, acc.bools + 2)
      cloned == CloneGene(acc.heap, geneToInherit)
  IN [heap |-> [cloned EXCEPT ![Len(cloned)].enabled =
                                 heap[geneToInherit].enabled /\ ~disable],
      rolls |-> Append(acc.rolls, Inheritance(mine, either, disable)),
      bools |-> acc.bools + (IF either THEN 2 ELSE 1)]

\* One turn of crossover's loop over the matching genes: the offspring gets
\* a clone of the gene of one parent. acc holds the heap so far, the rolls so
\* far and the calls of random.bool made so far.
InheritMatching(acc, myGene, otherGene, disabledChance, random) ==
  LET mine == Bool(random, "0.5", acc.bools + 1)
      geneToInherit == IF mine THEN myGene ELSE otherGene
      either == ~heap[myGene].enabled \/ ~heap[otherGene].enabled
      disable == either /\ Bool(random, disabledChance, acc.bools + 2)
      cloned == CloneGene(acc.heap, geneToInherit)
  IN [heap |-> [cloned EXCEPT ![Len(cloned)].enabled = ~disable],
      rolls |-> Append(acc.rolls, Inheritance(mine, either, disable)),
      bools |-> acc.bools + (IF either THEN 2 ELSE 1)]

\* crossover's loop over the k first matching genes.
RECURSIVE InheritedMatching(_, _, _, _, _)
InheritedMatching(myMatchingGenes, otherMatchingGenes, k, disabledChance, random) ==
  IF k = 0 THEN [heap |-> heap, rolls |-> <<>>, bools |-> 0]
  ELSE InheritMatching(InheritedMatching(myMatchingGenes, otherMatchingGenes, k - 1,
                                         disabledChance, random),
                       myMatchingGenes[k], otherMatchingGenes[k], disabledChance, random)

\* _.uniqBy(nodes, (gene) => gene.id): the first node gene of each id.
UniqBy(nodes) ==
  LET F[i \in 0..Len(nodes)] ==
        IF i = 0 THEN <<>>
        ELSE IF \E j \in 1..(i - 1) : nodes[j].id = nodes[i].id
               THEN F[i - 1] ELSE Append(F[i - 1], nodes[i])
  IN F[Len(nodes)]

\* InheritedExcessAndDisjointGenes that inherits from both parents always.
InheritedExcessAndDisjointGenes_both(this, otherStrand, equalFitness) ==
  (_excess(this, otherStrand) \o _disjoint(this, otherStrand))
    \o (_excess(otherStrand, this) \o _disjoint(otherStrand, this))

\* The excess and disjoint genes the offspring inherits, as the objects
\* they are in the parents.
InheritedExcessAndDisjointGenes(this, otherStrand, equalFitness) ==
  LET mine == _excess(this, otherStrand) \o _disjoint(this, otherStrand)
  IN IF equalFitness
       THEN mine \o (_excess(otherStrand, this) \o _disjoint(otherStrand, this))
       ELSE mine

\* InheritedNodeGenes without _.uniqBy: a node gene of both parents twice.
InheritedNodeGenes_all(this, otherStrand, h, connectionGenes) ==
  LET possibleNodeGenes == this.nodeGenes \o otherStrand.nodeGenes
      ids == {h[connectionGenes[i]].in : i \in 1..Len(connectionGenes)}
               \cup {h[connectionGenes[i]].out : i \in 1..Len(connectionGenes)}
  IN SelectSeq(possibleNodeGenes, LAMBDA nodeGene : nodeGene.id \in ids)

\* The node genes the offspring inherits: of the parents' node genes, the
\* first of each id, those that a connection gene of the offspring names.
InheritedNodeGenes(this, otherStrand, h, connectionGenes) ==
  LET possibleNodeGenes == UniqBy(this.nodeGenes \o otherStrand.nodeGenes)
      ids == {h[connectionGenes[i]].in : i \in 1..Len(connectionGenes)}
               \cup {h[connectionGenes[i]].out : i \in 1..Len(connectionGenes)}
  IN SelectSeq(possibleNodeGenes, LAMBDA nodeGene : nodeGene.id \in ids)

\* strands[a].crossover(strands[b], disabledChance, equalFitness, random)
crossover(a, b, disabledChance, equalFitness, random) ==
  LET this == strands[a]
      otherStrand == strands[b]
      myMatchingGenes == SortByInnovation(_matching(this, otherStrand))
      otherMatchingGenes == SortByInnovation(_matching(otherStrand, this))
  IN \E done \in {InheritedMatching(myMatchingGenes, otherMatchingGenes,
                                    Len(myMatchingGenes), disabledChance, random)} :
     \E connectionGenes \in
          {[k \in 1..Len(done.rolls) |-> Len(heap) + k]
             \o InheritedExcessAndDisjointGenes(this, otherStrand, equalFitness)} :
     \E nodeGenes \in {InheritedNodeGenes(this, otherStrand, done.heap, connectionGenes)} :
       /\ heap' = done.heap
       /\ strands' = Append(strands, Strand(nodeGenes, connectionGenes, Len(nodeGenes) + 1))
       /\ origin' = Append(origin, Origin("crossover", {a, b}))
       /\ last' = Last("crossover", a, b, Len(strands) + 1,
                       <<disabledChance, equalFitness>>, done.rolls, NoDistance)
       /\ ops' = ops + 1
       /\ UNCHANGED innovations

\* -------------------------------------------------------------------- clone
\* ClonedStore that makes every gene of the clone enabled.
RECURSIVE ClonedStore_enabled(_, _)
ClonedStore_enabled(genes, k) ==
  IF k = 0 THEN Store(heap, innovations)
  ELSE New(ClonedStore_enabled(genes, k - 1), heap[genes[k]].in, heap[genes[k]].out,
           heap[genes[k]].weight, TRUE)

\* clone's forEach over the k first connection genes of genes.
RECURSIVE ClonedStore(_, _)
ClonedStore(genes, k) ==
  IF k = 0 THEN Store(heap, innovations)
  ELSE New(ClonedStore(genes, k - 1), heap[genes[k]].in, heap[genes[k]].out,
           heap[genes[k]].weight, heap[genes[k]].enabled)

\* strands[s].clone()
clone(s) ==
  LET this == strands[s]
      n == Len(this.connectionGenes)
      store == ClonedStore(this.connectionGenes, n)
      strand == Strand([i \in 1..Len(this.nodeGenes) |->
                          NodeGene(this.nodeGenes[i].id, this.nodeGenes[i].type)],
                       [k \in 1..n |-> Len(heap) + k],
                       this._nextNodeGeneID)
  IN /\ heap' = store.heap
     /\ innovations' = store.innovations
     /\ strands' = Append(strands, strand)
     /\ origin' = Append(origin, Origin("clone", {s}))
     /\ last' = Last("clone", s, 0, Len(strands) + 1, <<>>, <<>>, NoDistance)
     /\ ops' = ops + 1

\* ---------------------------------------------------- compatibilityDistance
\* Below this many genes a genome is small and N is 1.
SmallGenome == 20

\* A distance is the fraction num / den of a weight tick, or NaN.
Distance(nan, num, den) == [nan |-> nan, num |-> num, den |-> den]

\* The sum of |myMatchingGenes[i].weight - otherMatchingGenes[i].weight| over
\* the k first positions.
RECURSIVE TotalWeightDifference(_, _, _)
TotalWeightDifference(myMatchingGenes, otherMatchingGenes, k) ==
  IF k = 0 THEN 0
  ELSE TotalWeightDifference(myMatchingGenes, otherMatchingGenes, k - 1)
         + Abs(heap[myMatchingGenes[k]].weight - heap[otherMatchingGenes[k]].weight)

\* this.compatibilityDistance(otherStrand, excessCoefficient,
\* disjointCoefficient, weightCoefficient); 0 / 0 is NaN, and so is any sum
\* or product with it.
compatibilityDistance(this, otherStrand, excessCoefficient, disjointCoefficient, weightCoefficient) ==
  LET myLength == Len(this.connectionGenes)
      otherLength == Len(otherStrand.connectionGenes)
      larger == IF myLength >= otherLength THEN myLength ELSE otherLength
      N == IF larger < SmallGenome THEN 1 ELSE larger
      myMatchingGenes == _matching(this, otherStrand)
      otherMatchingGenes == _matching(otherStrand, this)
      totalDisjoints == Len(_disjoint(this, otherStrand)) + Len(_disjoint(otherStrand, this))
      totalExcess == Len(_excess(this, otherStrand)) + Len(_excess(otherStrand, this))
      totalWeightDifference ==
        TotalWeightDifference(myMatchingGenes, otherMatchingGenes, Len(myMatchingGenes))
      matched == Len(myMatchingGenes)
  IN IF matched = 0 THEN Distance(TRUE, 0, 1)
     ELSE Distance(FALSE,
                   (excessCoefficient * totalExcess + disjointCoefficient * totalDisjoints)
                      * One * matched
                     + weightCoefficient * totalWeightDifference * N,
                   N * matched)

\* A call of strands[a].compatibilityDistance(strands[b], ...): it changes
\* nothing and returns the distance.
CompatibilityDistanceCall(a, b, excessCoefficient, disjointCoefficient, weightCoefficient) ==
  /\ last' = Last("compatibilityDistance", a, b, 0,
                  <<excessCoefficient, disjointCoefficient, weightCoefficient>>, <<>>,
                  compatibilityDistance(strands[a], strands[b], excessCoefficient,
                                        disjointCoefficient, weightCoefficient))
  /\ ops' = ops + 1
  /\ UNCHANGED <<heap, innovations, strands, origin>>

\* ------------------------------------------------------------- the calls
Coefficients == 0..MaxCoefficient

\* The source whose draws count up from 0, the sources that differ in the
\* reals and booleans they draw, and those that differ in their first draw.
Counting == [seed |-> 0, step |-> 1]

Coins == [seed : 0..MaxReal, step : 0..MaxReal]

Firsts == [seed : 0..MaxSeed, step : {0}]

\* The sources whose draws stay, or move on by one or by two.
Strides == [seed : 0..MaxSeed, step : 0..2]

\* The two sources whose booleans alternate.
Alternating == [seed : {0, 1}, step : {1}]

\* The calls a population makes: it constructs MaxConstructed strands, fully
\* connected, and mutates, clones, crosses over and compares them.
PopConstruct ==
  \E inputCount \in 1..MaxInputs, outputCount \in 1..MaxOutputs, enabled \in BOOLEAN :
    /\ ops < MaxOps
    /\ Len(strands) < MaxConstructed
    /\ Construct(inputCount, outputCount, enabled, Counting)

PopConstructEmpty ==
  /\ ops < MaxOps
  /\ Len(strands) < MaxConstructed
  /\ ConstructEmpty

PopMutateWeights ==
  \E s \in 1..Len(strands), perturbChance \in {"0", "1"}, newValueChance \in {"0", "1"} :
    /\ ops < MaxOps
    /\ mutateWeights(s, perturbChance, MaxAmplitude, newValueChance, Counting)

PopAddRandomNodeGene ==
  \E s \in 1..Len(strands) :
    /\ ops < MaxOps
    /\ addRandomNodeGene(s, Counting)

PopAddRandomConnectionGene ==
  \E s \in 1..Len(strands), random \in Firsts :
    /\ ops < MaxOps
    /\ addRandomConnectionGene(s, MaxAttempts, random)

PopCrossover ==
  \E a \in 1..Len(strands), b \in 1..Len(strands), random \in Alternating :
    \E disabledChance \in Chances, equalFitness \in BOOLEAN :
      /\ ops < MaxOps
      /\ Len(strands) < MaxStrands
      /\ crossover(a, b, disabledChance, equalFitness, random)

PopClone ==
  \E s \in 1..Len(strands) :
    /\ ops < MaxOps
    /\ Len(strands) < MaxStrands
    /\ clone(s)

PopCompatibilityDistance ==
  \E a \in 1..Len(strands), b \in 1..Len(strands) :
    /\ ops < MaxOps
    /\ CompatibilityDistanceCall(a, b, MaxCoefficient, MaxCoefficient, MaxCoefficient)

Next ==
  \/ PopConstruct
  \/ PopConstructEmpty
  \/ PopMutateWeights
  \/ PopAddRandomNodeGene
  \/ PopAddRandomConnectionGene
  \/ PopCrossover
  \/ PopClone
  \/ PopCompatibilityDistance

Spec == Init /\ [][Next]_vars

\* The calls of the constructor alone, with every count from 0 and every
\* randomness source.
DoConstruct ==
  \E inputCount \in 0..MaxInputs, outputCount \in 0..MaxOutputs :
    \E enabled \in BOOLEAN, random \in Randoms :
      /\ Len(strands) < MaxConstructed
      /\ Construct(inputCount, outputCount, enabled, random)

DoConstructEmpty ==
  /\ Len(strands) < MaxConstructed
  /\ ConstructEmpty

NextConstruct ==
  \/ DoConstruct
  \/ DoConstructEmpty

SpecConstruct == Init /\ [][NextConstruct]_vars

\* The mutations of one strand, with every argument and every randomness
\* source: the strand is constructed and then mutated MaxMutations times.
OneConstruct ==
  \E inputCount \in 1..MaxInputs, outputCount \in 1..MaxOutputs, enabled \in BOOLEAN :
    /\ strands = <<>>
    /\ Construct(inputCount, outputCount, enabled, Counting)

OneConstructEmpty ==
  /\ strands = <<>>
  /\ ConstructEmpty

DoMutateWeights ==
  \E s \in 1..Len(strands), random \in Coins :
    \E perturbChance \in Chances, newValueChance \in Chances :
      \E perturbAmplitude \in 0..MaxAmplitude :
        /\ ops <= MaxMutations
        /\ mutateWeights(s, perturbChance, perturbAmplitude, newValueChance, random)

DoAddRandomNodeGene ==
  \E s \in 1..Len(strands), random \in Firsts :
    /\ ops <= MaxMutations
    /\ addRandomNodeGene(s, random)

DoAddRandomConnectionGene ==
  \E s \in 1..Len(strands), random \in Randoms, iterations \in 0..MaxAttempts :
    /\ ops <= MaxMutations
    /\ addRandomConnectionGene(s, iterations, random)

NextMutation ==
  \/ OneConstruct
  \/ OneConstructEmpty
  \/ DoMutateWeights
  \/ DoAddRandomNodeGene
  \/ DoAddRandomConnectionGene

SpecMutation == Init /\ [][NextMutation]_vars

\* The calls of a family: strands constructed with the same inputCount and
\* outputCount, and whatever mutation, clone and crossover make of them.
Inputs(strand) == Len(SelectSeq(strand.nodeGenes, LAMBDA nodeGene : nodeGene.type = "input"))

Outputs(strand) == Len(SelectSeq(strand.nodeGenes, LAMBDA nodeGene : nodeGene.type = "output"))

FamConstruct ==
  \E inputCount \in 0..MaxInputs, outputCount \in 0..MaxOutputs :
    /\ ops <= MaxOps
    /\ Len(strands) < MaxConstructed
    /\ strands # <<>> => /\ origin[1].kind = "constructed"
                         /\ inputCount = Inputs(strands[1])
                         /\ outputCount = Outputs(strands[1])
    /\ Construct(inputCount, outputCount, TRUE, Counting)

FamMutateWeights ==
  \E s \in 1..Len(strands) :
    /\ ops <= MaxOps
    /\ mutateWeights(s, "0", MaxAmplitude, "1", Counting)

FamAddRandomNodeGene ==
  \E s \in 1..Len(strands), random \in Firsts :
    /\ ops <= MaxOps
    /\ addRandomNodeGene(s, random)

FamAddRandomConnectionGene ==
  \E s \in 1..Len(strands), random \in Strides :
    /\ ops <= MaxOps
    /\ addRandomConnectionGene(s, MaxAttempts, random)

FamCrossover ==
  \E a \in 1..Len(strands), b \in 1..Len(strands), equalFitness \in BOOLEAN :
    /\ ops <= MaxOps
    /\ Len(strands) < MaxStrands
    /\ crossover(a, b, "0.5", equalFitness, Counting)

FamClone ==
  \E s \in 1..Len(strands) :
    /\ ops <= MaxOps
    /\ Len(strands) < MaxStrands
    /\ clone(s)

NextFamily ==
  \/ FamConstruct
  \/ FamMutateWeights
  \/ FamAddRandomNodeGene
  \/ FamAddRandomConnectionGene
  \/ FamCrossover
  \/ FamClone

SpecFamily == Init /\ [][NextFamily]_vars

\* ------------------------------------------------------------ the claims
Refs == 1..Len(heap)

\* The strand the last call returned.
Returned == strands[last.ret]

\* The connection gene objects of a strand, in its order.
Genes(strand) == [k \in 1..Len(strand.connectionGenes) |-> heap[strand.connectionGenes[k]]]

\* C8: a strand constructed with N inputs, M outputs and the flag e has the
\* node genes 1 .. N+M in order, the first N of them inputs and the others
\* outputs, exactly one connection gene from each input to each output and no
\* other, each with enabled = e, and its counter at N+M+1; the zero-argument
\* construction yields no genes and the counter at 1.
C8_Constructed ==
  /\ last.op = "construct" =>
       LET N == last.args[1]
           M == last.args[2]
           genes == Genes(Returned)
       IN /\ Len(Returned.nodeGenes) = N + M
          /\ \A i \in 1..(N + M) :
               /\ Returned.nodeGenes[i].id = i
               /\ Returned.nodeGenes[i].type = (IF i <= N THEN "input" ELSE "output")
          /\ Len(genes) = N * M
          /\ \A i \in 1..N, o \in (N + 1)..(N + M) :
               Cardinality({k \in 1..Len(genes) : genes[k].in = i /\ genes[k].out = o}) = 1
          /\ \A k \in 1..Len(genes) : genes[k].enabled = last.args[3]
          /\ Returned._nextNodeGeneID = N + M + 1
          /\ (N = 0 \/ M = 0) => Returned.connectionGenes = <<>>
  /\ last.op = "constructEmpty" =>
       /\ Returned.nodeGenes = <<>>
       /\ Returned.connectionGenes = <<>>
       /\ Returned._nextNodeGeneID = 1

\* C8 happens: Strand(2, 1, true, random) was constructed.
C8_Witness == last.op = "construct" /\ last.args = <<2, 1, TRUE>>

\* The role of the node gene with the given id in a strand.
RolesOf(strand, id) ==
  {strand.nodeGenes[i].type : i \in {j \in 1..Len(strand.nodeGenes) : strand.nodeGenes[j].id = id}}

\* C9: mutateWeights rolls for every connection gene, disabled ones too, in
\* gene order and the perturb roll before the replace roll; a gene whose
\* replace roll fires ends with the fresh draw, one whose perturb roll alone
\* fires ends within perturbAmplitude of its old weight, any other keeps its
\* weight; and nothing but weights changes.
C9_MutateWeights ==
  [][last'.op = "mutateWeights" =>
       LET genes == strands[last'.self].connectionGenes
           rolls == last'.rolls
           perturbAmplitude == last'.args[2]
       IN /\ Len(rolls) = Len(genes)
          /\ \A k \in 1..Len(genes) :
               /\ rolls[k].perturbCall < rolls[k].replaceCall
               /\ k > 1 => rolls[k - 1].replaceCall < rolls[k].perturbCall
               /\ last'.args[1] = "1" => rolls[k].perturb
               /\ last'.args[1] = "0" => ~rolls[k].perturb
               /\ last'.args[3] = "1" => rolls[k].replace
               /\ last'.args[3] = "0" => ~rolls[k].replace
               /\ rolls[k].replace => heap'[genes[k]].weight = rolls[k].fresh
               /\ (~rolls[k].replace /\ rolls[k].perturb) =>
                    Abs(heap'[genes[k]].weight - heap[genes[k]].weight)
                      <= perturbAmplitude * One
               /\ (~rolls[k].replace /\ ~rolls[k].perturb) =>
                    heap'[genes[k]].weight = heap[genes[k]].weight
          /\ strands' = strands
          /\ innovations' = innovations
          /\ Len(heap') = Len(heap)
          /\ \A ref \in Refs :
               /\ heap'[ref] = [heap[ref] EXCEPT !.weight = heap'[ref].weight]
               /\ ref \notin Range(genes) => heap'[ref] = heap[ref]
  ]_vars

\* C9 happens: mutateWeights was called on a strand with a disabled gene,
\* both rolls fired for one gene and the perturb roll moved another.
C9_Witness ==
  /\ last.op = "mutateWeights"
  /\ \E k \in 1..Len(last.rolls) : last.rolls[k].perturb /\ last.rolls[k].replace
  /\ \E k \in 1..Len(last.rolls) :
       last.rolls[k].perturb /\ ~last.rolls[k].replace /\ last.rolls[k].real # 0
  /\ \E k \in 1..Len(last.rolls) : ~Genes(strands[last.self])[k].enabled

\* C6: addRandomNodeGene disables the connection gene it picked, adds one
\* hidden node gene whose id is the previous counter and advances the counter
\* by one, and adds two enabled connection genes: from the picked gene's
\* source to the new node with weight 1, and from the new node to the picked
\* gene's destination with the picked gene's weight; all else is unchanged.
C6_AddRandomNodeGene ==
  [][last'.op = "addRandomNodeGene" =>
       LET s == last'.self
           c == last'.ret
           before == strands[s]
           after == strands'[s]
           n == before._nextNodeGeneID
           k == Len(before.connectionGenes)
       IN /\ c \in Range(before.connectionGenes)
          /\ heap'[c] = [heap[c] EXCEPT !.enabled = FALSE]
          /\ after.nodeGenes = Append(before.nodeGenes, [id |-> n, type |-> "hidden"])
          /\ after._nextNodeGeneID = n + 1
          /\ Len(after.connectionGenes) = k + 2
          /\ SubSeq(after.connectionGenes, 1, k) = before.connectionGenes
          /\ after.connectionGenes[k + 1] \notin Refs
          /\ after.connectionGenes[k + 2] \notin Refs
          /\ after.connectionGenes[k + 1] # after.connectionGenes[k + 2]
          /\ LET incoming == heap'[after.connectionGenes[k + 1]]
                 outgoing == heap'[after.connectionGenes[k + 2]]
             IN /\ incoming.in = heap[c].in /\ incoming.out = n
                /\ incoming.weight = One /\ incoming.enabled
                /\ outgoing.in = n /\ outgoing.out = heap[c].out
                /\ outgoing.weight = heap[c].weight /\ outgoing.enabled
          /\ Len(heap') = Len(heap) + 2
          /\ \A ref \in Refs \ {c} : heap'[ref] = heap[ref]
          /\ \A t \in (1..Len(strands)) \ {s} : strands'[t] = strands[t]
          /\ Len(strands') = Len(strands)
  ]_vars

\* C6 happens: a gene whose weight is not 1 was split.
C6_Witness ==
  /\ last.op = "addRandomNodeGene"
  /\ heap[last.ret].weight # One
  /\ ~heap[last.ret].enabled

\* Whether the strand, as it is now, lets source connect to dest.
Legal(strand, source, dest) ==
  /\ source.type # "output"
  /\ dest.type # "input"
  /\ \A k \in 1..Len(strand.connectionGenes) :
       ~(Genes(strand)[k].in = source.id /\ Genes(strand)[k].out = dest.id)

\* C4: addRandomConnectionGene makes at most maxAttempts attempts and stops
\* at the first that succeeds; the gene it adds is enabled, does not start
\* at an output or end at an input, and repeats no pair of the strand; when
\* every attempt is rejected it returns null and changes nothing; and it
\* returns a gene exactly when the strand grew by one connection gene.
C4_AddRandomConnectionGene ==
  [][last'.op = "addRandomConnectionGene" =>
       LET s == last'.self
           before == strands[s]
           after == strands'[s]
           tried == last'.rolls
           gene == last'.ret
       IN /\ Len(tried) <= last'.args[1]
          /\ \A k \in 1..(Len(tried) - 1) : ~Legal(before, tried[k].source, tried[k].dest)
          /\ gene = 0 =>
               /\ Len(tried) = last'.args[1]
               /\ \A k \in 1..Len(tried) : ~Legal(before, tried[k].source, tried[k].dest)
               /\ heap' = heap /\ strands' = strands /\ innovations' = innovations
          /\ gene # 0 =>
               /\ Legal(before, tried[Len(tried)].source, tried[Len(tried)].dest)
               /\ gene \notin Refs
               /\ after = [before EXCEPT !.connectionGenes = Append(@, gene)]
               /\ heap'[gene].enabled
               /\ heap'[gene].in = tried[Len(tried)].source.id
               /\ heap'[gene].out = tried[Len(tried)].dest.id
               /\ "output" \notin RolesOf(before, heap'[gene].in)
               /\ "input" \notin RolesOf(before, heap'[gene].out)
               /\ \A k \in 1..Len(before.connectionGenes) :
                    <<Genes(before)[k].in, Genes(before)[k].out>>
                      # <<heap'[gene].in, heap'[gene].out>>
               /\ \A ref \in Refs : heap'[ref] = heap[ref]
          /\ (gene # 0) <=> (Len(after.connectionGenes) = Len(before.connectionGenes) + 1)
          /\ Len(after.connectionGenes) \in
               {Len(before.connectionGenes), Len(before.connectionGenes) + 1}
  ]_vars

\* C4 happens: the second attempt added a gene between two different nodes.
C4_Witness ==
  /\ last.op = "addRandomConnectionGene"
  /\ last.ret # 0
  /\ Len(last.rolls) > 1
  /\ heap[last.ret].in # heap[last.ret].out

\* C4 happens also with every attempt rejected.
C4_Exhausted ==
  /\ last.op = "addRandomConnectionGene"
  /\ last.ret = 0
  /\ Len(last.rolls) > 1

\* C10 as claimed: a gene that addRandomConnectionGene adds is no self-loop.
C10_NoSelfLoop ==
  (last.op = "addRandomConnectionGene" /\ last.ret # 0) =>
    heap[last.ret].in # heap[last.ret].out

\* C10 as amended: an attempt that picks one node for both ends is rejected
\* when the node is an input or an output, and when the node is hidden it
\* adds the self-loop unless the strand has it already.
C10_SelfLoop ==
  [][last'.op = "addRandomConnectionGene" =>
       LET before == strands[last'.self]
           tried == last'.rolls
       IN \A k \in 1..Len(tried) :
            tried[k].source = tried[k].dest =>
              LET added == last'.ret # 0 /\ k = Len(tried)
                  present == \E j \in 1..Len(before.connectionGenes) :
                               /\ Genes(before)[j].in = tried[k].source.id
                               /\ Genes(before)[j].out = tried[k].source.id
              IN /\ tried[k].source.type \in {"input", "output"} => ~added
                 /\ tried[k].source.type = "hidden" => (added <=> ~present)
  ]_vars

\* C10 happens: a hidden node was picked for both ends and the loop added.
C10_Witness ==
  /\ last.op = "addRandomConnectionGene"
  /\ last.ret # 0
  /\ heap[last.ret].in = heap[last.ret].out

\* The number of places of a sequence that hold x.
Occurrences(seq, x) == Cardinality({i \in 1..Len(seq) : seq[i] = x})

\* The innovation numbers of a strand's connection genes.
Innovations(strand) ==
  {innovationNumber(strand.connectionGenes[k]) : k \in 1..Len(strand.connectionGenes)}

Zero(distance) == ~distance.nan /\ distance.num = 0

\* C1: for all strands A and B, every connection gene of A is in exactly one
\* of A._matching(B), A._disjoint(B) and A._excess(B), once, and these hold
\* nothing but genes of A.
C1_Partition ==
  \A a \in 1..Len(strands), b \in 1..Len(strands) :
    LET A == strands[a]
        B == strands[b]
        classes == _matching(A, B) \o _disjoint(A, B) \o _excess(A, B)
    IN /\ \A k \in 1..Len(A.connectionGenes) :
            Occurrences(classes, A.connectionGenes[k]) = 1
       /\ Len(classes) = Len(A.connectionGenes)

\* C1 happens: a strand has matching, disjoint and excess genes against
\* another, which has genes that do not match either.
C1_Witness ==
  \E a \in 1..Len(strands), b \in 1..Len(strands) :
    /\ _matching(strands[a], strands[b]) # <<>>
    /\ _disjoint(strands[a], strands[b]) # <<>>
    /\ _excess(strands[a], strands[b]) # <<>>
    /\ _disjoint(strands[b], strands[a]) # <<>>

\* C2 as claimed: a mutation of a clone or of an offspring leaves the strands
\* it was made from, and every gene of theirs, as they were.
C2_Unshared ==
  [][(/\ last'.op \in {"mutateWeights", "addRandomNodeGene", "addRandomConnectionGene"}
      /\ origin[last'.self].kind \in {"clone", "crossover"}) =>
       \A p \in origin[last'.self].parents :
         /\ strands'[p] = strands[p]
         /\ \A k \in 1..Len(strands[p].connectionGenes) :
              heap'[strands[p].connectionGenes[k]] = heap[strands[p].connectionGenes[k]]
  ]_vars

\* C3 as claimed: the distance of any strand to itself is 0, whatever the
\* coefficients.
C3_SelfDistance ==
  \A s \in 1..Len(strands) :
    \A cE \in Coefficients, cD \in Coefficients, cW \in Coefficients :
      Zero(compatibilityDistance(strands[s], strands[s], cE, cD, cW))

\* C5: the offspring of a crossover has one connection gene for each
\* innovation number it inherits, and it inherits the numbers of `this`
\* parent, and those of the other parent too when equalFitness is set; so
\* it has as many genes as `this` parent when both carry the same numbers.
C5_Crossover ==
  last.op = "crossover" =>
    LET A == strands[last.self]
        B == strands[last.other]
    IN /\ Cardinality(Innovations(Returned)) = Len(Returned.connectionGenes)
       /\ Innovations(Returned) =
            (IF last.args[2] THEN Innovations(A) \cup Innovations(B) ELSE Innovations(A))
       /\ Innovations(A) = Innovations(B) =>
            Len(Returned.connectionGenes) = Len(A.connectionGenes)

\* C5 happens: a crossover without equalFitness of parents that match in
\* some genes, each with genes the other has not.
C5_Witness ==
  /\ last.op = "crossover"
  /\ ~last.args[2]
  /\ _matching(strands[last.self], strands[last.other]) # <<>>
  /\ Innovations(strands[last.other]) \ Innovations(strands[last.self]) # {}
  /\ Innovations(strands[last.self]) \ Innovations(strands[last.other]) # {}

\* C7: a clone has the node genes, the connection genes (ends, weight,
\* enabled flag, innovation number) and the counter of its original, in the
\* same order; so each of its genes matches one of the original, and their
\* distance is 0 when there is a connection gene.
C7_Clone ==
  last.op = "clone" =>
    LET G == strands[last.self]
    IN /\ Returned.nodeGenes = G.nodeGenes
       /\ Genes(Returned) = Genes(G)
       /\ Returned._nextNodeGeneID = G._nextNodeGeneID
       /\ _matching(Returned, G) = Returned.connectionGenes
       /\ G.connectionGenes # <<>> =>
            \A cE \in Coefficients, cD \in Coefficients, cW \in Coefficients :
              Zero(compatibilityDistance(G, Returned, cE, cD, cW))

\* C7 happens: a strand with a disabled gene and two weights was cloned.
C7_Witness ==
  /\ last.op = "clone"
  /\ \E k \in 1..Len(Genes(Returned)) : ~Genes(Returned)[k].enabled
  /\ \E k \in 1..Len(Genes(Returned)) : Genes(Returned)[k].weight # Genes(Returned)[1].weight

\* Whether a strand is well formed: its node ids are unique, its counter is
\* above them all, no two of its connection genes have the same ends in the
\* same order, and none starts at an output or ends at an input.
WellFormed(strand) ==
  /\ \A i \in 1..Len(strand.nodeGenes), j \in 1..Len(strand.nodeGenes) :
       strand.nodeGenes[i].id = strand.nodeGenes[j].id => i = j
  /\ \A i \in 1..Len(strand.nodeGenes) :
       strand._nextNodeGeneID > strand.nodeGenes[i].id
  /\ \A k \in 1..Len(strand.connectionGenes), l \in 1..Len(strand.connectionGenes) :
       (/\ Genes(strand)[k].in = Genes(strand)[l].in
        /\ Genes(strand)[k].out = Genes(strand)[l].out) => k = l
  /\ \A k \in 1..Len(strand.connectionGenes), i \in 1..Len(strand.nodeGenes) :
       /\ strand.nodeGenes[i].id = Genes(strand)[k].in =>
            strand.nodeGenes[i].type # "output"
       /\ strand.nodeGenes[i].id = Genes(strand)[k].out =>
            strand.nodeGenes[i].type # "input"

\* C11: every strand of a family (strands constructed with the same counts,
\* mutated, cloned and crossed over in any order) is well formed.
C11_WellFormed == \A s \in 1..Len(strands) : WellFormed(strands[s])

\* C11 happens: a node gene was added to the offspring of two parents that
\* differ in their hidden nodes, after crossover reset its counter.
C11_Witness ==
  /\ last.op = "addRandomNodeGene"
  /\ origin[last.self].kind = "crossover"
  /\ \E a \in origin[last.self].parents, b \in origin[last.self].parents :
       Len(strands[a].nodeGenes) > Len(strands[b].nodeGenes)

\* The largest of a non-empty set of numbers.
Max(numbers) == CHOOSE n \in numbers : \A m \in numbers : m <= n

\* C12 as claimed: for all strands A and B, a gene of A that matches none of
\* B is in A._excess(B) exactly when its innovation number is above every
\* innovation number of B, matching genes included, and in A._disjoint(B)
\* exactly when it is below the largest innovation number of B.
C12_ByRange ==
  \A a \in 1..Len(strands), b \in 1..Len(strands) :
    LET A == strands[a]
        B == strands[b]
    IN \A k \in 1..Len(A.connectionGenes) :
         LET g == A.connectionGenes[k]
         IN innovationNumber(g) \notin Innovations(B) =>
              /\ g \in Range(_excess(A, B)) <=>
                   \A n \in Innovations(B) : innovationNumber(g) > n
              /\ g \in Range(_disjoint(A, B)) <=>
                   (Innovations(B) # {} /\ innovationNumber(g) < Max(Innovations(B)))

\* The strand's gene of the innovation number n.
GeneOf(strand, n) ==
  LET k == CHOOSE i \in 1..Len(strand.connectionGenes) :
             /\ innovationNumber(strand.connectionGenes[i]) = n
             /\ \A j \in 1..(i - 1) : innovationNumber(strand.connectionGenes[j]) # n
  IN heap[strand.connectionGenes[k]]

\* The sum, over the innovation numbers A and B both have, of the
\* difference between the weights of A's and of B's gene of that number.
PairedWeightDifference(A, B) ==
  LET mine == _matching(A, B)
      F[k \in 0..Len(mine)] ==
        IF k = 0 THEN 0
        ELSE F[k - 1] + Abs(heap[mine[k]].weight
                              - GeneOf(B, innovationNumber(mine[k])).weight)
  IN F[Len(mine)]

\* C13 as claimed: the distance A.compatibilityDistance(B, cE, cD, cW) of
\* strands with a matching gene is cE * excess / N + cD * disjoint / N + cW *
\* the mean, over the matching innovation numbers, of the difference between
\* A's and B's weight of that number, in whatever order the strands hold
\* their genes; it is 0 when both have the same numbers with the same weights.
C13_PairedByInnovation ==
  (last.op = "compatibilityDistance"
     /\ _matching(strands[last.self], strands[last.other]) # <<>>) =>
    LET A == strands[last.self]
        B == strands[last.other]
        larger == IF Len(A.connectionGenes) >= Len(B.connectionGenes)
                    THEN Len(A.connectionGenes) ELSE Len(B.connectionGenes)
        N == IF larger < SmallGenome THEN 1 ELSE larger
        matched == Len(_matching(A, B))
        excess == Len(_excess(A, B)) + Len(_excess(B, A))
        disjoint == Len(_disjoint(A, B)) + Len(_disjoint(B, A))
    IN /\ ~last.dist.nan
       /\ last.dist.num * (N * matched) =
            last.dist.den * ((last.args[1] * excess + last.args[2] * disjoint) * One * matched
                               + last.args[3] * PairedWeightDifference(A, B) * N)
       /\ (/\ Innovations(A) = Innovations(B)
           /\ \A n \in Innovations(A) : GeneOf(A, n).weight = GeneOf(B, n).weight) =>
            Zero(last.dist)

\* Whether the offspring of the last crossover got its k-th gene as a copy
\* of the gene the 50/50 roll chose among the two parents' genes of the k-th
\* matching innovation number, disabled only when a parent's gene is, with
\* the disabling roll drawn exactly in that case and firing as its chance
\* tells. When the roll was drawn and did not fire the copy is to have the
\* flag of the chosen gene if asCopied, and to be enabled if not.
Inherited(k, asCopied) ==
  LET A == strands[last.self]
      B == strands[last.other]
      gene == Genes(Returned)[k]
      n == gene.innovationNumber
      roll == last.rolls[k]
      mine == GeneOf(A, n)
      other == GeneOf(B, n)
      chosen == IF roll.mine THEN mine ELSE other
  IN /\ n \in Innovations(A) \cap Innovations(B)
     /\ Cardinality({m \in Innovations(A) \cap Innovations(B) : m < n}) = k - 1
     /\ gene.in = chosen.in
     /\ gene.out = chosen.out
     /\ gene.weight = chosen.weight
     /\ roll.drawn <=> (~mine.enabled \/ ~other.enabled)
     /\ ~roll.drawn => gene.enabled
     /\ roll.drawn => /\ gene.enabled = (~roll.disable /\ (asCopied => chosen.enabled))
                      /\ last.args[1] = "1" => roll.disable
                      /\ last.args[1] = "0" => ~roll.disable
     /\ ~gene.enabled => (~mine.enabled \/ ~other.enabled)

\* C14 as claimed: a matching gene disabled in a parent is disabled in the
\* offspring if the disabling roll fires and otherwise keeps the flag of the
\* gene it is a copy of.
C14_AsCopied ==
  last.op = "crossover" =>
    /\ Len(last.rolls) = Cardinality(Innovations(strands[last.self])
                                       \cap Innovations(strands[last.other]))
    /\ \A k \in 1..Len(last.rolls) :
         Inherited(k, TRUE)

\* C14: the offspring's gene of each matching innovation number is a copy
\* (ends, weight) of the gene of the parent the 50/50 roll chose; enabled in
\* both parents, it is enabled and no disabling roll is drawn; disabled in a
\* parent, it is disabled if the disabling roll fires and enabled otherwise,
\* whatever the flag of the gene it is a copy of; so it is disabled only if
\* a parent's gene is.
C14_Inherited ==
  last.op = "crossover" =>
    /\ Len(last.rolls) = Cardinality(Innovations(strands[last.self])
                                       \cap Innovations(strands[last.other]))
    /\ \A k \in 1..Len(last.rolls) :
         Inherited(k, FALSE)

\* C14 happens: the offspring has an enabled copy of a disabled gene, the
\* disabling roll having been drawn without firing, and a gene enabled in
\* both parents that took no disabling roll.
C14_Witness ==
  /\ last.op = "crossover"
  /\ \E k \in 1..Len(last.rolls) :
       LET n == Genes(Returned)[k].innovationNumber
           chosen == IF last.rolls[k].mine THEN GeneOf(strands[last.self], n)
                     ELSE GeneOf(strands[last.other], n)
       IN ~chosen.enabled /\ last.rolls[k].drawn /\ Genes(Returned)[k].enabled
  /\ \E k \in 1..Len(last.rolls) : ~last.rolls[k].drawn

====
